---- MODULE Spec2Model ----
(***************************************************************************)
(* A model of static/js/reader.js: the e-book reader's page renderer,      *)
(* scroll/page tracker, selection capture, annotation panel, layer         *)
(* creation dialog and AI assist trigger.                                  *)
(*                                                                         *)
(* Every handler of the script is one action.  An async function is one    *)
(* action per stretch of code between two awaits: the stretch that issues  *)
(* a request, and the stretch that runs when the response arrives.  The    *)
(* requests in flight are kept per request kind; a response may arrive     *)
(* for any request in flight, in any order.                                *)
(*                                                                         *)
(* Texts are sequences of one-character strings, so that trim() is         *)
(* computed.  DOM values that hold numbers as text (option values, the     *)
(* page wrapper ids) are sequences of digits, so that parseInt is          *)
(* computed.  null, undefined and "" where the code only tests them for    *)
(* falsiness are the value Null.                                           *)
(***************************************************************************)
EXTENDS Integers, Sequences, FiniteSets

\* ------------------------------------------------------------------ bounds

\* numPages of the document that loads is in 1..MaxPages
MaxPages == 2
\* at most MaxInFlight backend requests are outstanding at a time
MaxInFlight == 2
\* the AI is asked only while the draft holds fewer than MaxAiBlocks answers
MaxAiBlocks == 1

\* ------------------------------------------------- ambient values, helpers

\* null / undefined / "" (falsy in every test the code makes of them)
Null == 0
\* the result of parseInt on a text that starts with no digit
NaN == -1
\* the hosting page's identifier of the viewer
CURRENT_USER_ID == 1

Whitespace == {" ", "\n"}

RECURSIVE TrimStart(_)
TrimStart(s) ==
  IF s = <<>> THEN <<>>
  ELSE IF Head(s) \in Whitespace THEN TrimStart(Tail(s)) ELSE s

RECURSIVE TrimEnd(_)
TrimEnd(s) ==
  IF s = <<>> THEN <<>>
  ELSE IF s[Len(s)] \in Whitespace THEN TrimEnd(SubSeq(s, 1, Len(s) - 1)) ELSE s

\* String.prototype.trim
Trim(s) == TrimEnd(TrimStart(s))

\* the decimal digits of a non-negative integer, as String(n) writes them
RECURSIVE NumToStr(_)
NumToStr(n) ==
  IF n < 10 THEN <<n>> ELSE Append(NumToStr(n \div 10), n % 10)

RECURSIVE ParseDigits(_, _)
ParseDigits(s, acc) ==
  IF s = <<>> THEN acc
  ELSE IF Head(s) \in 0..9 THEN ParseDigits(Tail(s), 10 * acc + Head(s)) ELSE acc

\* parseInt on a text of digits: NaN when it starts with no digit
ParseInt(s) ==
  IF s = <<>> \/ Head(s) \notin 0..9 THEN NaN ELSE ParseDigits(s, 0)

\* the truthiness test of `if (x)` on a number or Null
Truthy(x) == x # NaN /\ x # 0

RemoveAt(s, i) == SubSeq(s, 1, i - 1) \o SubSeq(s, i + 1, Len(s))

\* `page-wrapper-${pageNum}`, as split('-') cuts it
WrapperId(n) == <<"page", "wrapper", NumToStr(n)>>

\* parseInt(pageId.split('-')[2])
PageOf(target) == ParseInt(target[3])

\* the two tests of the observer callback on one entry
Qualifies(e) == e.isIntersecting /\ Truthy(PageOf(e.target))

RECURSIVE SelectLastAny(_, _)
\* SelectLast without the isIntersecting test
SelectLastAny(entries, cur) ==
  IF entries = <<>> THEN cur
  ELSE SelectLastAny(Tail(entries), PageOf(Head(entries).target))

RECURSIVE SelectLast(_, _)
\* forEach over entries with an assignment in the body: the last entry that
\* passes the tests decides; `cur` is the value when none does
SelectLast(entries, cur) ==
  IF entries = <<>> THEN cur
  ELSE SelectLast(Tail(entries),
                  IF Qualifies(Head(entries)) THEN PageOf(Head(entries).target) ELSE cur)

\* ------------------------------------------------------------------- state

VARIABLES
  \* page renderer
  loadPc,            \* position of loadPdf / renderAllPages
  totalPages,
  pageNum,           \* loop variable of renderAllPages
  viewerContainer,   \* the page wrappers, in DOM order
  observed,          \* wrapper ids the pageObserver observes
  mouseupListener,   \* setupTextSelection has run
  \* scroll / page tracker
  currentPageNum,
  pageNumDisplay,
  scrolledTo,        \* wrapper last passed to scrollIntoView
  \* annotation panel
  currentLayerId,
  currentHighlightedText,
  annotationTextarea,
  layerSelect,       \* [options, value]
  annotationList,    \* [html, cards]
  \* layer creation dialog
  createLayerModal,  \* "flex" or "none"
  newLayerNameInput,
  newLayerGroupSelect, \* [options, value]
  \* AI trigger
  askAiBtn,          \* [disabled, textContent]
  \* requests in flight, per kind
  layersReqs, annotationsReqs, saveReqs, deleteReqs, groupsReqs, createReqs, aiReqs,
  \* what the last handler told the user / the console
  alertMsg, consoleError

viewerVars == <<loadPc, totalPages, pageNum, viewerContainer, observed, mouseupListener>>
trackerVars == <<currentPageNum, pageNumDisplay, scrolledTo>>
panelVars == <<currentLayerId, currentHighlightedText, annotationTextarea, layerSelect,
               annotationList>>
modalVars == <<createLayerModal, newLayerNameInput, newLayerGroupSelect>>
netVars == <<layersReqs, annotationsReqs, saveReqs, deleteReqs, groupsReqs, createReqs, aiReqs>>
outVars == <<alertMsg, consoleError>>

vars == <<viewerVars, trackerVars, panelVars, modalVars, askAiBtn, netVars, outVars>>

InFlight == Len(layersReqs) + Len(annotationsReqs) + Len(saveReqs) + Len(deleteReqs)
            + Len(groupsReqs) + Len(createReqs) + Len(aiReqs)

\* a handler that neither alerts nor logs
Quiet == alertMsg' = "" /\ consoleError' = ""
Alert(msg) == alertMsg' = msg /\ consoleError' = ""
AlertAndLog(msg) == alertMsg' = msg /\ consoleError' = "error"
LogOnly == alertMsg' = "" /\ consoleError' = "error"

\* ------------------------------------------------------------------- Init

\* The state when the DOMContentLoaded handler has returned: fetchLayers()
\* and loadPdf(PDF_URL) have each run up to their first await.
Init ==
  /\ loadPc = "getDocument"
  /\ totalPages = 0
  /\ pageNum = 0
  /\ viewerContainer = <<>>
  /\ observed = {}
  /\ mouseupListener = FALSE
  /\ currentPageNum = 1
  /\ pageNumDisplay = Null
  /\ scrolledTo = <<>>
  /\ currentLayerId = Null
  /\ currentHighlightedText = <<>>
  /\ annotationTextarea = <<>>
  /\ layerSelect = [options |-> <<>>, value |-> Null]
  /\ annotationList = [html |-> "page", cards |-> <<>>]
  /\ createLayerModal = "none"
  /\ newLayerNameInput = <<>>
  /\ newLayerGroupSelect = [options |-> <<>>, value |-> <<>>]
  /\ askAiBtn = [disabled |-> FALSE, textContent |-> "page"]
  /\ layersReqs = <<[then |-> "nothing", newLayer |-> Null]>>
  /\ annotationsReqs = <<>>
  /\ saveReqs = <<>>
  /\ deleteReqs = <<>>
  /\ groupsReqs = <<>>
  /\ createReqs = <<>>
  /\ aiReqs = <<>>
  /\ alertMsg = ""
  /\ consoleError = ""

\* ----------------------------------------------------------- page renderer

\* loadPdf: getDocument resolves with a document of n pages; renderAllPages
\* clears the container, disconnects the observer and enters its loop
GetDocumentOk(n) ==
  /\ loadPc = "getDocument"
  /\ totalPages' = n
  /\ viewerContainer' = <<>>
  /\ observed' = {}
  /\ pageNum' = 1
  /\ loadPc' = IF 1 <= n THEN "getPage" ELSE "done"
  /\ mouseupListener' = ~(1 <= n)
  /\ Quiet
  /\ UNCHANGED <<trackerVars, panelVars, modalVars, askAiBtn, netVars>>

\* loadPdf: getDocument rejects
GetDocumentFail ==
  /\ loadPc = "getDocument"
  /\ loadPc' = "failed"
  /\ AlertAndLog("Could not load PDF file.")
  /\ UNCHANGED <<totalPages, pageNum, viewerContainer, observed, mouseupListener,
                 trackerVars, panelVars, modalVars, askAiBtn, netVars>>

\* the loop's pageNum++ and test; after the loop loadPdf calls setupTextSelection
NextIteration ==
  /\ pageNum' = pageNum + 1
  /\ loadPc' = IF pageNum + 1 <= totalPages THEN "getPage" ELSE "done"
  /\ mouseupListener' = ~(pageNum + 1 <= totalPages)

\* renderAllPages: getPage resolves; the wrapper with its canvas is appended
\* and observed, and page.render is started
GetPageOk ==
  /\ loadPc = "getPage"
  /\ viewerContainer' = Append(viewerContainer,
                               [id |-> WrapperId(pageNum), textLayer |-> FALSE])
  /\ observed' = observed \cup {WrapperId(pageNum)}
  /\ loadPc' = "render"
  /\ Quiet
  /\ UNCHANGED <<totalPages, pageNum, mouseupListener,
                 trackerVars, panelVars, modalVars, askAiBtn, netVars>>

\* renderAllPages: page.render and getTextContent resolve; the text layer div
\* is appended to the page's wrapper and renderTextLayer is started
RenderOk ==
  /\ loadPc = "render"
  /\ viewerContainer' = [viewerContainer EXCEPT ![Len(viewerContainer)].textLayer = TRUE]
  /\ loadPc' = "renderTextLayer"
  /\ Quiet
  /\ UNCHANGED <<totalPages, pageNum, observed, mouseupListener,
                 trackerVars, panelVars, modalVars, askAiBtn, netVars>>

\* renderAllPages: renderTextLayer resolves; the iteration ends
RenderTextLayerOk ==
  /\ loadPc = "renderTextLayer"
  /\ NextIteration
  /\ Quiet
  /\ UNCHANGED <<totalPages, viewerContainer, observed,
                 trackerVars, panelVars, modalVars, askAiBtn, netVars>>

\* PageError that gives up on the remaining pages
PageErrorAborts ==
  /\ loadPc \in {"getPage", "render", "renderTextLayer"}
  /\ loadPc' = "done"
  /\ mouseupListener' = TRUE
  /\ LogOnly
  /\ UNCHANGED <<totalPages, pageNum, viewerContainer, observed,
                 trackerVars, panelVars, modalVars, askAiBtn, netVars>>

\* renderAllPages: an await of the iteration rejects; the catch logs and the
\* loop goes on with the next page
PageError ==
  /\ loadPc \in {"getPage", "render", "renderTextLayer"}
  /\ NextIteration
  /\ LogOnly
  /\ UNCHANGED <<totalPages, viewerContainer, observed,
                 trackerVars, panelVars, modalVars, askAiBtn, netVars>>

\* ----------------------------------------------------- scroll/page tracker

\* the entry lists an observer callback can be called with: one entry or two,
\* each for an observed wrapper; isIntersecting is the browser's report that
\* the wrapper is at or above the 0.5 threshold
Entries ==
  LET E == [target : observed, isIntersecting : BOOLEAN]
  IN {<<e>> : e \in E} \cup {<<e, f>> : e \in E, f \in E}

\* the pageObserver callback
ObserverCallback(entries) ==
  /\ currentPageNum' = SelectLast(entries, currentPageNum)
  /\ pageNumDisplay' = IF \E i \in 1..Len(entries) : Qualifies(entries[i])
                       THEN currentPageNum' ELSE pageNumDisplay
  /\ Quiet
  /\ UNCHANGED <<viewerVars, scrolledTo, panelVars, modalVars, askAiBtn, netVars>>

HasWrapper(id) == \E i \in 1..Len(viewerContainer) : viewerContainer[i].id = id

\* PageButtonClick moving the page counter itself, without looking for the wrapper
PageButtonClickSetsPage(d) ==
  /\ currentPageNum' = currentPageNum + d
  /\ Quiet
  /\ UNCHANGED <<viewerVars, scrolledTo, pageNumDisplay, panelVars, modalVars,
                 askAiBtn, netVars>>

\* prevPageBtn / nextPageBtn click (d = -1 / d = 1)
PageButtonClick(d) ==
  /\ scrolledTo' = IF currentPageNum + d >= 0 /\ HasWrapper(WrapperId(currentPageNum + d))
                   THEN WrapperId(currentPageNum + d) ELSE scrolledTo
  /\ Quiet
  /\ UNCHANGED <<viewerVars, currentPageNum, pageNumDisplay, panelVars, modalVars,
                 askAiBtn, netVars>>

NextViewer ==
  \/ \E n \in 1..MaxPages : GetDocumentOk(n)
  \/ GetDocumentFail
  \/ GetPageOk
  \/ RenderOk
  \/ RenderTextLayerOk
  \/ PageError
  \/ \E entries \in Entries : ObserverCallback(entries)
  \/ \E d \in {-1, 1} : PageButtonClick(d)

SpecViewer == Init /\ [][NextViewer]_vars

\* ------------------------------------------------------- selection capture

\* what window.getSelection().toString() can return at a pointer release
Selections == {<<>>, <<" ">>, <<" ", "q">>, <<"r", " ">>}

\* MouseUp without the length test
MouseUpNoLengthTest(selection) ==
  /\ mouseupListener
  /\ currentHighlightedText' = Trim(selection)
  /\ Quiet
  /\ UNCHANGED <<viewerVars, trackerVars, currentLayerId, annotationTextarea, layerSelect,
                 annotationList, modalVars, askAiBtn, netVars>>

\* the mouseup listener that setupTextSelection attaches to the viewer area
MouseUp(selection) ==
  /\ mouseupListener
  /\ LET selectedText == Trim(selection)
     IN currentHighlightedText' =
          IF Len(selectedText) > 0 THEN selectedText ELSE currentHighlightedText
  /\ Quiet
  /\ UNCHANGED <<viewerVars, trackerVars, currentLayerId, annotationTextarea, layerSelect,
                 annotationList, modalVars, askAiBtn, netVars>>

\* -------------------------------------------------------- annotation panel

LayerIds == {1, 2}
\* the layer lists the backend answers with
LayerLists == {<<>>, <<1, 2>>}

\* the annotations of the backend: layer 1 holds one by the viewer and one by
\* somebody else, layer 2 holds one by somebody else
Annotations == {[id |-> 1, author_id |-> CURRENT_USER_ID, layer_id |-> 1],
                [id |-> 2, author_id |-> CURRENT_USER_ID + 1, layer_id |-> 1],
                [id |-> 3, author_id |-> CURRENT_USER_ID + 1, layer_id |-> 2]}
\* the arrays /api/layer/<layerId>/annotations answers with: annotations of
\* that layer, in any order
AnnotationsOf(layerId) ==
  LET ofLayer == {a \in Annotations : a.layer_id = layerId}
  IN {<<>>} \cup {<<a>> : a \in ofLayer}
            \cup {<<a, b>> : <<a, b>> \in {p \in ofLayer \X ofLayer : p[1] # p[2]}}
AnnotationLists == UNION {AnnotationsOf(layerId) : layerId \in LayerIds}

\* what the user can type into the note box
Drafts == {<<>>, <<" ">>, <<" ", "n">>}

\* a card with a delete button whoever wrote the annotation
CardAlwaysDeletable(annotation) ==
  [shows |-> annotation.id, deleteBtn |-> TRUE, dataId |-> Null]

\* the card renderAnnotations builds for one annotation: what it shows, whether
\* it has a delete button, and its data-id attribute, which is never set
Card(annotation) ==
  [shows |-> annotation.id,
   deleteBtn |-> annotation.author_id = CURRENT_USER_ID,
   dataId |-> Null]

RenderAnnotations(annotations) ==
  IF Len(annotations) = 0
  THEN [html |-> "No notes yet", cards |-> <<>>]
  ELSE [html |-> "", cards |-> [i \in 1..Len(annotations) |-> Card(annotations[i])]]

\* FetchAnnotations that leaves currentLayerId alone
FetchAnnotationsKeepsLayer(layerId) ==
  IF ~Truthy(layerId)
  THEN /\ annotationList' = [html |-> "Select a journal layer", cards |-> <<>>]
       /\ UNCHANGED <<currentLayerId, annotationsReqs>>
  ELSE /\ UNCHANGED currentLayerId
       /\ annotationList' = [html |-> "Loading", cards |-> <<>>]
       /\ annotationsReqs' = Append(annotationsReqs, layerId)

\* fetchAnnotations up to its await
FetchAnnotations(layerId) ==
  IF ~Truthy(layerId)
  THEN /\ annotationList' = [html |-> "Select a journal layer", cards |-> <<>>]
       /\ UNCHANGED <<currentLayerId, annotationsReqs>>
  ELSE /\ currentLayerId' = layerId
       /\ annotationList' = [html |-> "Loading", cards |-> <<>>]
       /\ annotationsReqs' = Append(annotationsReqs, layerId)

\* the enabled options of the layer selector
LayerOptions == {layerSelect.options[i] : i \in 1..Len(layerSelect.options)}

\* layerSelect change listener
LayerChange(layerId) ==
  /\ layerId \in LayerOptions
  /\ layerId # layerSelect.value
  /\ InFlight < MaxInFlight
  /\ layerSelect' = [layerSelect EXCEPT !.value = layerId]
  /\ FetchAnnotations(layerId)
  /\ Quiet
  /\ UNCHANGED <<viewerVars, trackerVars, currentHighlightedText, annotationTextarea,
                 modalVars, askAiBtn,
                 layersReqs, saveReqs, deleteReqs, groupsReqs, createReqs, aiReqs>>

\* AnnotationsOk that drops the response of a layer that is no longer current
AnnotationsOkIgnoresStale(i, annotations) ==
  /\ i \in 1..Len(annotationsReqs)
  /\ annotationsReqs' = RemoveAt(annotationsReqs, i)
  /\ annotationList' = IF annotationsReqs[i] = currentLayerId
                       THEN RenderAnnotations(annotations) ELSE annotationList
  /\ Quiet
  /\ UNCHANGED <<viewerVars, trackerVars, currentLayerId, currentHighlightedText,
                 annotationTextarea, layerSelect, modalVars, askAiBtn,
                 layersReqs, saveReqs, deleteReqs, groupsReqs, createReqs, aiReqs>>

\* fetchAnnotations after its awaits: the response is an array
AnnotationsOk(i, annotations) ==
  /\ i \in 1..Len(annotationsReqs)
  /\ annotationsReqs' = RemoveAt(annotationsReqs, i)
  /\ annotationList' = RenderAnnotations(annotations)
  /\ Quiet
  /\ UNCHANGED <<viewerVars, trackerVars, currentLayerId, currentHighlightedText,
                 annotationTextarea, layerSelect, modalVars, askAiBtn,
                 layersReqs, saveReqs, deleteReqs, groupsReqs, createReqs, aiReqs>>

\* fetchAnnotations after its awaits: fetch or json() rejects (network error,
\* a body that is no JSON), or the body is an error object and not an array,
\* in which case renderAnnotations has emptied the list before forEach throws
AnnotationsFail(i, body) ==
  /\ i \in 1..Len(annotationsReqs)
  /\ annotationsReqs' = RemoveAt(annotationsReqs, i)
  /\ annotationList' = IF body = "object" THEN [html |-> "", cards |-> <<>>]
                       ELSE annotationList
  /\ LogOnly
  /\ UNCHANGED <<viewerVars, trackerVars, currentLayerId, currentHighlightedText,
                 annotationTextarea, layerSelect, modalVars, askAiBtn,
                 layersReqs, saveReqs, deleteReqs, groupsReqs, createReqs, aiReqs>>

\* user input into the note box
TypeDraft(text) ==
  /\ annotationTextarea' = text
  /\ Quiet
  /\ UNCHANGED <<viewerVars, trackerVars, currentLayerId, currentHighlightedText,
                 layerSelect, annotationList, modalVars, askAiBtn, netVars>>

\* a location that stays at the page the reader opened on
PositionDataAtLoad(n) == <<"Page ", NumToStr(1)>>

\* `Page ${currentPageNum}`
PositionData(n) == <<"Page ", NumToStr(n)>>

\* SaveClick without the test of currentLayerId
SaveClickNoLayerCheck ==
  LET content == Trim(annotationTextarea) IN
  /\ IF Len(content) = 0
     THEN Alert("Please write a note.") /\ UNCHANGED saveReqs
     ELSE /\ InFlight < MaxInFlight
          /\ saveReqs' = Append(saveReqs,
                                [content |-> content,
                                 layer_id |-> currentLayerId,
                                 highlighted_text |-> currentHighlightedText,
                                 position_data |-> PositionData(currentPageNum)])
          /\ Quiet
  /\ UNCHANGED <<viewerVars, trackerVars, panelVars, modalVars, askAiBtn,
                 layersReqs, annotationsReqs, deleteReqs, groupsReqs, createReqs, aiReqs>>

\* SaveClick that does nothing while a create-annotation request is in flight
SaveClickGuarded ==
  LET content == Trim(annotationTextarea) IN
  /\ IF Len(content) = 0
     THEN Alert("Please write a note.") /\ UNCHANGED saveReqs
     ELSE IF ~Truthy(currentLayerId)
     THEN Alert("Please select a journal layer.") /\ UNCHANGED saveReqs
     ELSE IF Len(saveReqs) > 0
     THEN Quiet /\ UNCHANGED saveReqs
     ELSE /\ InFlight < MaxInFlight
          /\ saveReqs' = Append(saveReqs,
                                [content |-> content,
                                 layer_id |-> currentLayerId,
                                 highlighted_text |-> currentHighlightedText,
                                 position_data |-> PositionData(currentPageNum)])
          /\ Quiet
  /\ UNCHANGED <<viewerVars, trackerVars, panelVars, modalVars, askAiBtn,
                 layersReqs, annotationsReqs, deleteReqs, groupsReqs, createReqs, aiReqs>>

\* saveAnnotation up to its await
SaveClick ==
  LET content == Trim(annotationTextarea) IN
  /\ IF Len(content) = 0
     THEN Alert("Please write a note.") /\ UNCHANGED saveReqs
     ELSE IF ~Truthy(currentLayerId)
     THEN Alert("Please select a journal layer.") /\ UNCHANGED saveReqs
     ELSE /\ InFlight < MaxInFlight
          /\ saveReqs' = Append(saveReqs,
                                [content |-> content,
                                 layer_id |-> currentLayerId,
                                 highlighted_text |-> currentHighlightedText,
                                 position_data |-> PositionData(currentPageNum)])
          /\ Quiet
  /\ UNCHANGED <<viewerVars, trackerVars, panelVars, modalVars, askAiBtn,
                 layersReqs, annotationsReqs, deleteReqs, groupsReqs, createReqs, aiReqs>>

\* SaveOk that forgets to clear the pending quote
SaveOkKeepsQuote(i) ==
  /\ i \in 1..Len(saveReqs)
  /\ saveReqs' = RemoveAt(saveReqs, i)
  /\ FetchAnnotations(currentLayerId)
  /\ annotationTextarea' = <<>>
  /\ Quiet
  /\ UNCHANGED <<viewerVars, trackerVars, currentHighlightedText, layerSelect, modalVars,
                 askAiBtn, layersReqs, deleteReqs, groupsReqs, createReqs, aiReqs>>

\* saveAnnotation after its await: response.ok
SaveOk(i) ==
  /\ i \in 1..Len(saveReqs)
  /\ saveReqs' = RemoveAt(saveReqs, i)
  /\ FetchAnnotations(currentLayerId)
  /\ annotationTextarea' = <<>>
  /\ currentHighlightedText' = <<>>
  /\ Quiet
  /\ UNCHANGED <<viewerVars, trackerVars, layerSelect, modalVars, askAiBtn,
                 layersReqs, deleteReqs, groupsReqs, createReqs, aiReqs>>

\* saveAnnotation after its await: fetch rejects or the status is no success
SaveFail(i) ==
  /\ i \in 1..Len(saveReqs)
  /\ saveReqs' = RemoveAt(saveReqs, i)
  /\ AlertAndLog("Error saving note.")
  /\ UNCHANGED <<viewerVars, trackerVars, panelVars, modalVars, askAiBtn,
                 layersReqs, annotationsReqs, deleteReqs, groupsReqs, createReqs, aiReqs>>

\* deleteAnnotation up to its await; the click is on the delete button of the
\* c-th card, `confirmed` is the answer to confirm('Delete this note?')
DeleteClick(c, confirmed) ==
  /\ c \in 1..Len(annotationList.cards)
  /\ annotationList.cards[c].deleteBtn
  /\ IF confirmed
     THEN /\ InFlight < MaxInFlight
          /\ deleteReqs' = Append(deleteReqs, annotationList.cards[c].shows)
     ELSE UNCHANGED deleteReqs
  /\ Quiet
  /\ UNCHANGED <<viewerVars, trackerVars, panelVars, modalVars, askAiBtn,
                 layersReqs, annotationsReqs, saveReqs, groupsReqs, createReqs, aiReqs>>

\* document.querySelector(`.annotation-card[data-id="${annotationId}"]`):
\* the index of the first card with that attribute value, 0 when none has it
QueryCard(cards, annotationId) ==
  LET hits == {k \in 1..Len(cards) : cards[k].dataId = annotationId}
  IN IF hits = {} THEN 0 ELSE CHOOSE k \in hits : \A j \in hits : k <= j

\* deleteAnnotation after its await: fetch resolves, with whatever status
DeleteDone(i) ==
  /\ i \in 1..Len(deleteReqs)
  /\ deleteReqs' = RemoveAt(deleteReqs, i)
  /\ LET card == QueryCard(annotationList.cards, deleteReqs[i])
     IN annotationList' =
          IF card # 0
          THEN [annotationList EXCEPT !.cards = RemoveAt(annotationList.cards, card)]
          ELSE annotationList
  /\ Quiet
  /\ UNCHANGED <<viewerVars, trackerVars, currentLayerId, currentHighlightedText,
                 annotationTextarea, layerSelect, modalVars, askAiBtn,
                 layersReqs, annotationsReqs, saveReqs, groupsReqs, createReqs, aiReqs>>

\* deleteAnnotation after its await: fetch rejects; nothing catches it
DeleteReject(i) ==
  /\ i \in 1..Len(deleteReqs)
  /\ deleteReqs' = RemoveAt(deleteReqs, i)
  /\ alertMsg' = ""
  /\ consoleError' = "uncaught"
  /\ UNCHANGED <<viewerVars, trackerVars, panelVars, modalVars, askAiBtn,
                 layersReqs, annotationsReqs, saveReqs, groupsReqs, createReqs, aiReqs>>

\* AfterFetchLayers that never selects the new layer
AfterFetchLayersNoSelect(req, select) ==
  /\ layerSelect' = select
  /\ UNCHANGED <<currentLayerId, annotationList, annotationsReqs>>

\* what runs in confirmLayerBtn.onclick after `await fetchLayers()`, and nothing
\* for the fetchLayers() of the page's start; `select` is the layer selector as
\* fetchLayers left it
AfterFetchLayers(req, select) ==
  IF req.then = "selectNew"
  THEN /\ layerSelect' =
            [select EXCEPT !.value =
               IF \E k \in 1..Len(select.options) : select.options[k] = req.newLayer
               THEN req.newLayer ELSE Null]
       /\ FetchAnnotations(req.newLayer)
  ELSE /\ layerSelect' = select
       /\ UNCHANGED <<currentLayerId, annotationList, annotationsReqs>>

\* fetchLayers after its awaits: the response is an array of layers
LayersOk(i, layers) ==
  /\ i \in 1..Len(layersReqs)
  /\ layersReqs' = RemoveAt(layersReqs, i)
  /\ AfterFetchLayers(layersReqs[i], [options |-> layers, value |-> Null])
  /\ Quiet
  /\ UNCHANGED <<viewerVars, trackerVars, currentHighlightedText, annotationTextarea,
                 modalVars, askAiBtn, saveReqs, deleteReqs, groupsReqs, createReqs, aiReqs>>

\* fetchLayers after its awaits: fetch or json() rejects, or the body is an
\* error object and not an array, in which case the selector has been reset to
\* its placeholder before forEach throws
LayersFail(i, body) ==
  /\ i \in 1..Len(layersReqs)
  /\ layersReqs' = RemoveAt(layersReqs, i)
  /\ AfterFetchLayers(layersReqs[i],
                      IF body = "object" THEN [options |-> <<>>, value |-> Null]
                      ELSE layerSelect)
  /\ LogOnly
  /\ UNCHANGED <<viewerVars, trackerVars, currentHighlightedText, annotationTextarea,
                 modalVars, askAiBtn, saveReqs, deleteReqs, groupsReqs, createReqs, aiReqs>>

\* --------------------------------------------------- layer creation dialog

\* the group lists the backend answers with
GroupLists == {<<>>, <<7, 12>>}
\* what the user can type into the name input
Names == {<<" ">>, <<"L", " ">>}

\* Each groups request in flight carries the bookkeeping of the opening of the
\* dialog that sent it: `open`, the dialog has not been closed since, and
\* `created`, a create-layer request has been sent during that opening.
Closed(reqs) == [k \in 1..Len(reqs) |-> [reqs[k] EXCEPT !.open = FALSE]]
Created(reqs) ==
  [k \in 1..Len(reqs) |-> [reqs[k] EXCEPT !.created = reqs[k].created \/ reqs[k].open]]

\* addLayerBtn click: openCreateLayerModal up to its await.  The dialog is the
\* full-page backdrop, so the button is reachable only while it is hidden.
OpenModal ==
  /\ createLayerModal = "none"
  /\ InFlight < MaxInFlight
  /\ newLayerNameInput' = <<>>
  /\ newLayerGroupSelect' = [options |-> << <<>> >>, value |-> <<>>]
  /\ createLayerModal' = "flex"
  /\ groupsReqs' = Append(groupsReqs, [open |-> TRUE, created |-> FALSE])
  /\ Quiet
  /\ UNCHANGED <<viewerVars, trackerVars, panelVars, askAiBtn,
                 layersReqs, annotationsReqs, saveReqs, deleteReqs, createReqs, aiReqs>>

\* the option values openCreateLayerModal builds: "0", then one per group
GroupOptions(userGroups) ==
  << <<0>> >> \o [k \in 1..Len(userGroups) |-> NumToStr(userGroups[k])]

\* openCreateLayerModal after its awaits: response.ok
GroupsOk(i, userGroups) ==
  /\ i \in 1..Len(groupsReqs)
  /\ groupsReqs' = RemoveAt(groupsReqs, i)
  /\ newLayerGroupSelect' = [options |-> GroupOptions(userGroups), value |-> <<0>>]
  /\ Quiet
  /\ UNCHANGED <<viewerVars, trackerVars, panelVars, askAiBtn, createLayerModal,
                 newLayerNameInput,
                 layersReqs, annotationsReqs, saveReqs, deleteReqs, createReqs, aiReqs>>

\* GroupsFail without the line that hides the dialog
GroupsFailStaysOpen(i) ==
  /\ i \in 1..Len(groupsReqs)
  /\ groupsReqs' = RemoveAt(groupsReqs, i)
  /\ AlertAndLog("Error loading groups.")
  /\ UNCHANGED <<viewerVars, trackerVars, panelVars, askAiBtn, modalVars,
                 layersReqs, annotationsReqs, saveReqs, deleteReqs, createReqs, aiReqs>>

\* openCreateLayerModal after its await: fetch rejects or the status is no success
GroupsFail(i) ==
  /\ i \in 1..Len(groupsReqs)
  /\ groupsReqs' = Closed(RemoveAt(groupsReqs, i))
  /\ createLayerModal' = "none"
  /\ AlertAndLog("Error loading groups.")
  /\ UNCHANGED <<viewerVars, trackerVars, panelVars, askAiBtn,
                 newLayerNameInput, newLayerGroupSelect,
                 layersReqs, annotationsReqs, saveReqs, deleteReqs, createReqs, aiReqs>>

\* user input into the name input of the open dialog
TypeName(text) ==
  /\ createLayerModal = "flex"
  /\ newLayerNameInput' = text
  /\ Quiet
  /\ UNCHANGED <<viewerVars, trackerVars, panelVars, askAiBtn, createLayerModal,
                 newLayerGroupSelect, netVars>>

\* the user picks the k-th option of the scope selector of the open dialog
SelectScope(k) ==
  /\ createLayerModal = "flex"
  /\ k \in 1..Len(newLayerGroupSelect.options)
  /\ newLayerGroupSelect' = [newLayerGroupSelect EXCEPT !.value = newLayerGroupSelect.options[k]]
  /\ Quiet
  /\ UNCHANGED <<viewerVars, trackerVars, panelVars, askAiBtn, createLayerModal,
                 newLayerNameInput, netVars>>

\* (groupIdVal === "0") ? null : parseInt(groupIdVal)
StudyGroupId(groupIdVal) == IF groupIdVal = <<0>> THEN Null ELSE ParseInt(groupIdVal)

\* JSON.stringify of a number or null: NaN is written as null
Stringify(x) == IF x = NaN THEN Null ELSE x

\* confirmLayerBtn.onclick up to its await
ConfirmClick ==
  LET layerName == Trim(newLayerNameInput) IN
  /\ createLayerModal = "flex"
  /\ IF Len(layerName) = 0
     THEN Alert("Please enter a name.") /\ UNCHANGED <<createReqs, groupsReqs>>
     ELSE /\ InFlight < MaxInFlight
          /\ createReqs' = Append(createReqs,
                 [name |-> layerName,
                  study_group_id |-> Stringify(StudyGroupId(newLayerGroupSelect.value))])
          /\ groupsReqs' = Created(groupsReqs)
          /\ Quiet
  /\ UNCHANGED <<viewerVars, trackerVars, panelVars, askAiBtn, modalVars,
                 layersReqs, annotationsReqs, saveReqs, deleteReqs, aiReqs>>

\* confirmLayerBtn.onclick after its first await: createResponse.ok; the dialog
\* is hidden and fetchLayers is called; newLayer is the id of the response body
CreateOk(i, newLayer) ==
  /\ i \in 1..Len(createReqs)
  /\ createReqs' = RemoveAt(createReqs, i)
  /\ createLayerModal' = "none"
  /\ groupsReqs' = Closed(groupsReqs)
  /\ layersReqs' = Append(layersReqs, [then |-> "selectNew", newLayer |-> newLayer])
  /\ Quiet
  /\ UNCHANGED <<viewerVars, trackerVars, panelVars, askAiBtn,
                 newLayerNameInput, newLayerGroupSelect,
                 annotationsReqs, saveReqs, deleteReqs, aiReqs>>

\* confirmLayerBtn.onclick after its first await: fetch rejects or the status is
\* no success
CreateFail(i) ==
  /\ i \in 1..Len(createReqs)
  /\ createReqs' = RemoveAt(createReqs, i)
  /\ AlertAndLog("Error creating layer.")
  /\ UNCHANGED <<viewerVars, trackerVars, panelVars, askAiBtn, modalVars,
                 layersReqs, annotationsReqs, saveReqs, deleteReqs, groupsReqs, aiReqs>>

\* cancelLayerBtn.onclick
CancelClick ==
  /\ createLayerModal = "flex"
  /\ createLayerModal' = "none"
  /\ groupsReqs' = Closed(groupsReqs)
  /\ Quiet
  /\ UNCHANGED <<viewerVars, trackerVars, panelVars, askAiBtn,
                 newLayerNameInput, newLayerGroupSelect,
                 layersReqs, annotationsReqs, saveReqs, deleteReqs, createReqs, aiReqs>>

\* createLayerModal click listener, for a click on the backdrop itself
BackdropClick ==
  /\ createLayerModal = "flex"
  /\ createLayerModal' = "none"
  /\ groupsReqs' = Closed(groupsReqs)
  /\ Quiet
  /\ UNCHANGED <<viewerVars, trackerVars, panelVars, askAiBtn,
                 newLayerNameInput, newLayerGroupSelect,
                 layersReqs, annotationsReqs, saveReqs, deleteReqs, createReqs, aiReqs>>

\* ---------------------------------------------------------------- ask AI

\* `\n\n[AI]: ${data.explanation}\n`
AiBlock(explanation) == <<"\n", "\n", "[AI]: ", explanation, "\n">>

AiBlocks(text) == Cardinality({k \in 1..Len(text) : text[k] = "[AI]: "})

\* AskAiClick that leaves the button enabled while the request is in flight
AskAiClickStaysEnabled ==
  LET userThought == Trim(annotationTextarea) IN
  /\ ~askAiBtn.disabled
  /\ IF Len(userThought) = 0
     THEN /\ Alert("Please write a question or thought in the box first.")
          /\ UNCHANGED <<askAiBtn, aiReqs>>
     ELSE /\ InFlight < MaxInFlight
          /\ AiBlocks(annotationTextarea) < MaxAiBlocks
          /\ askAiBtn' = [disabled |-> FALSE, textContent |-> "Thinking..."]
          /\ aiReqs' = Append(aiReqs, [text |-> userThought])
          /\ Quiet
  /\ UNCHANGED <<viewerVars, trackerVars, panelVars, modalVars,
                 layersReqs, annotationsReqs, saveReqs, deleteReqs, groupsReqs, createReqs>>

\* askAiBtn click: askAiToExplain up to its await; a disabled button gets no click
AskAiClick ==
  LET userThought == Trim(annotationTextarea) IN
  /\ ~askAiBtn.disabled
  /\ IF Len(userThought) = 0
     THEN /\ Alert("Please write a question or thought in the box first.")
          /\ UNCHANGED <<askAiBtn, aiReqs>>
     ELSE /\ InFlight < MaxInFlight
          /\ AiBlocks(annotationTextarea) < MaxAiBlocks
          /\ askAiBtn' = [disabled |-> TRUE, textContent |-> "Thinking..."]
          /\ aiReqs' = Append(aiReqs, [text |-> userThought])
          /\ Quiet
  /\ UNCHANGED <<viewerVars, trackerVars, panelVars, modalVars,
                 layersReqs, annotationsReqs, saveReqs, deleteReqs, groupsReqs, createReqs>>

\* askAiToExplain after its awaits: the body is JSON; `explanation` is
\* data.explanation, "undefined" when the body has no such field (the body of
\* an error status, which the code does not test)
AiAnswer(i, explanation) ==
  /\ i \in 1..Len(aiReqs)
  /\ aiReqs' = RemoveAt(aiReqs, i)
  /\ annotationTextarea' = annotationTextarea \o AiBlock(explanation)
  /\ askAiBtn' = [disabled |-> FALSE, textContent |-> "Ask AI"]
  /\ Quiet
  /\ UNCHANGED <<viewerVars, trackerVars, currentLayerId, currentHighlightedText,
                 layerSelect, annotationList, modalVars,
                 layersReqs, annotationsReqs, saveReqs, deleteReqs, groupsReqs, createReqs>>

\* AiFail without the finally block
AiFailStaysBusy(i) ==
  /\ i \in 1..Len(aiReqs)
  /\ aiReqs' = RemoveAt(aiReqs, i)
  /\ AlertAndLog("AI could not respond.")
  /\ UNCHANGED <<viewerVars, trackerVars, panelVars, modalVars, askAiBtn,
                 layersReqs, annotationsReqs, saveReqs, deleteReqs, groupsReqs, createReqs>>

\* askAiToExplain after its awaits: fetch or json() rejects
AiFail(i) ==
  /\ i \in 1..Len(aiReqs)
  /\ aiReqs' = RemoveAt(aiReqs, i)
  /\ askAiBtn' = [disabled |-> FALSE, textContent |-> "Ask AI"]
  /\ AlertAndLog("AI could not respond.")
  /\ UNCHANGED <<viewerVars, trackerVars, panelVars, modalVars,
                 layersReqs, annotationsReqs, saveReqs, deleteReqs, groupsReqs, createReqs>>

\* ---------------------------------------------------------- specifications

NextLayers ==
  \/ \E i \in 1..MaxInFlight, layers \in LayerLists : LayersOk(i, layers)
  \/ \E i \in 1..MaxInFlight, body \in {"none", "object"} : LayersFail(i, body)

NextAnnotations ==
  \/ \E i \in 1..MaxInFlight :
       /\ i <= Len(annotationsReqs)
       /\ \E annotations \in AnnotationsOf(annotationsReqs[i]) : AnnotationsOk(i, annotations)
  \/ \E i \in 1..MaxInFlight, body \in {"none", "object"} : AnnotationsFail(i, body)

NextPanel ==
  \/ NextLayers
  \/ \E layerId \in LayerIds : LayerChange(layerId)
  \/ NextAnnotations
  \/ \E selection \in Selections : MouseUp(selection)
  \/ \E text \in Drafts : TypeDraft(text)
  \/ SaveClick
  \/ \E i \in 1..MaxInFlight : SaveOk(i)
  \/ \E i \in 1..MaxInFlight : SaveFail(i)
  \/ \E c \in 1..2, confirmed \in BOOLEAN : DeleteClick(c, confirmed)
  \/ \E i \in 1..MaxInFlight : DeleteDone(i)
  \/ \E i \in 1..MaxInFlight : DeleteReject(i)

NextDialog ==
  \/ OpenModal
  \/ \E i \in 1..MaxInFlight, userGroups \in GroupLists : GroupsOk(i, userGroups)
  \/ \E i \in 1..MaxInFlight : GroupsFail(i)
  \/ \E text \in Names : TypeName(text)
  \/ \E k \in 1..3 : SelectScope(k)
  \/ ConfirmClick
  \/ \E i \in 1..MaxInFlight, newLayer \in LayerIds \cup {Null} : CreateOk(i, newLayer)
  \/ \E i \in 1..MaxInFlight : CreateFail(i)
  \/ CancelClick
  \/ BackdropClick

NextAi ==
  \/ AskAiClick
  \/ \E i \in 1..MaxInFlight, explanation \in {"e", "undefined"} : AiAnswer(i, explanation)
  \/ \E i \in 1..MaxInFlight : AiFail(i)

Next == NextViewer \/ NextPanel \/ NextDialog \/ NextAi

Spec == Init /\ [][Next]_vars

\* The state in which loadPdf has returned for a document of MaxPages pages,
\* every page rendered, and nothing else has happened yet.
Loaded ==
  /\ loadPc = "done"
  /\ totalPages = MaxPages
  /\ pageNum = MaxPages + 1
  /\ viewerContainer = [n \in 1..MaxPages |-> [id |-> WrapperId(n), textLayer |-> TRUE]]
  /\ observed = {WrapperId(n) : n \in 1..MaxPages}
  /\ mouseupListener = TRUE
  /\ currentPageNum = 1
  /\ pageNumDisplay = Null
  /\ scrolledTo = <<>>
  /\ currentLayerId = Null
  /\ currentHighlightedText = <<>>
  /\ annotationTextarea = <<>>
  /\ layerSelect = [options |-> <<>>, value |-> Null]
  /\ annotationList = [html |-> "page", cards |-> <<>>]
  /\ createLayerModal = "none"
  /\ newLayerNameInput = <<>>
  /\ newLayerGroupSelect = [options |-> <<>>, value |-> <<>>]
  /\ askAiBtn = [disabled |-> FALSE, textContent |-> "page"]
  /\ layersReqs = <<[then |-> "nothing", newLayer |-> Null]>>
  /\ annotationsReqs = <<>>
  /\ saveReqs = <<>>
  /\ deleteReqs = <<>>
  /\ groupsReqs = <<>>
  /\ createReqs = <<>>
  /\ aiReqs = <<>>
  /\ alertMsg = ""
  /\ consoleError = ""

\* the annotation panel with selection capture, once the document has loaded
SpecPanel == Loaded /\ [][NextPanel]_vars

\* the layer creation dialog, with the layer and annotation fetches it starts
\* (the list of a layer that was just created holds no annotation)
NextCreateLayer ==
  \/ NextDialog
  \/ NextLayers
  \/ \E i \in 1..MaxInFlight : AnnotationsOk(i, <<>>)
  \/ \E i \in 1..MaxInFlight, body \in {"none", "object"} : AnnotationsFail(i, body)
SpecDialog == Init /\ [][NextCreateLayer]_vars

\* The state SpecPanel reaches from Loaded by LayersOk(1, <<1, 2>>),
\* LayerChange(1) and AnnotationsOk(1, <<>>): the document is rendered, layer 1
\* is selected and its list, still without notes, is shown.
LayerOpen ==
  /\ loadPc = "done"
  /\ totalPages = MaxPages
  /\ pageNum = MaxPages + 1
  /\ viewerContainer = [n \in 1..MaxPages |-> [id |-> WrapperId(n), textLayer |-> TRUE]]
  /\ observed = {WrapperId(n) : n \in 1..MaxPages}
  /\ mouseupListener = TRUE
  /\ currentPageNum = 1
  /\ pageNumDisplay = Null
  /\ scrolledTo = <<>>
  /\ currentLayerId = 1
  /\ currentHighlightedText = <<>>
  /\ annotationTextarea = <<>>
  /\ layerSelect = [options |-> <<1, 2>>, value |-> 1]
  /\ annotationList = [html |-> "No notes yet", cards |-> <<>>]
  /\ createLayerModal = "none"
  /\ newLayerNameInput = <<>>
  /\ newLayerGroupSelect = [options |-> <<>>, value |-> <<>>]
  /\ askAiBtn = [disabled |-> FALSE, textContent |-> "page"]
  /\ layersReqs = <<>>
  /\ annotationsReqs = <<>>
  /\ saveReqs = <<>>
  /\ deleteReqs = <<>>
  /\ groupsReqs = <<>>
  /\ createReqs = <<>>
  /\ aiReqs = <<>>
  /\ alertMsg = ""
  /\ consoleError = ""

\* saving notes while the scroll/page tracker follows the reader; the observer
\* reports one wrapper at a time
NextSave ==
  \/ \E target \in observed, isIntersecting \in BOOLEAN :
       ObserverCallback(<<[target |-> target, isIntersecting |-> isIntersecting]>>)
  \/ \E selection \in Selections : MouseUp(selection)
  \/ \E text \in Drafts : TypeDraft(text)
  \/ SaveClick
  \/ \E i \in 1..MaxInFlight : SaveOk(i)
  \/ \E i \in 1..MaxInFlight : SaveFail(i)
  \/ NextAnnotations

SpecSave == LayerOpen /\ [][NextSave]_vars

\* the AI assist on the draft of a note that is then saved
NextAssist ==
  \/ NextAi
  \/ \E text \in Drafts : TypeDraft(text)
  \/ SaveClick
  \/ \E i \in 1..MaxInFlight : SaveOk(i)
  \/ \E i \in 1..MaxInFlight : SaveFail(i)
  \/ NextAnnotations

SpecAi == LayerOpen /\ [][NextAssist]_vars

\* ------------------------------------------------------------------ claims

Sends == 1..MaxInFlight

\* C1: a click on save while the trimmed draft is empty, or while no layer is
\* selected, issues no request of any kind and leaves currentLayerId, the
\* pending quote and the draft as they were.
C1_RejectedSaveSendsNothing ==
  [][(SaveClick /\ (Len(Trim(annotationTextarea)) = 0 \/ currentLayerId = Null))
       => /\ UNCHANGED netVars
          /\ UNCHANGED <<currentLayerId, currentHighlightedText, annotationTextarea>>]_vars

\* a save click with a note written and no layer selected has just been rejected
C1_Witness ==
  /\ alertMsg = "Please select a journal layer."
  /\ Len(Trim(annotationTextarea)) > 0
  /\ currentLayerId = Null
  /\ currentHighlightedText # <<>>
  /\ saveReqs = <<>>

\* the cards that do not show annotation `id`
WithoutCard(cards, id) == SelectSeq(cards, LAMBDA card : card.shows # id)

\* C2: a declined delete sends no request and leaves the rendered list as it
\* was; a confirmed delete whose request completes removes exactly the card of
\* that annotation from the rendered list, and every other card stays.
C2_DeleteRemovesExactlyTheCard ==
  /\ [][\A c \in 1..2 : DeleteClick(c, FALSE)
          => UNCHANGED netVars /\ UNCHANGED annotationList]_vars
  /\ [][\A i \in Sends : DeleteDone(i)
          => annotationList'.cards = WithoutCard(annotationList.cards, deleteReqs[i])]_vars

\* C3: when a create-annotation request returns a success status, the draft
\* and the pending quote are emptied and a list-annotations request for
\* currentLayerId is issued; the list shows the loading placeholder and no
\* card, and a card only ever enters the rendered list with the response of a
\* list-annotations request.
C3_SaveOkClearsAndRefetches ==
  /\ [][\A i \in Sends : SaveOk(i)
          => /\ annotationTextarea' = <<>>
             /\ currentHighlightedText' = <<>>
             /\ currentLayerId' = currentLayerId
             /\ annotationsReqs' = Append(annotationsReqs, currentLayerId)
             /\ annotationList' = [html |-> "Loading", cards |-> <<>>]]_vars
  /\ [][(\E k \in 1..Len(annotationList'.cards) :
           \A j \in 1..Len(annotationList.cards) :
              annotationList.cards[j] # annotationList'.cards[k])
          => \E i \in Sends, annotations \in AnnotationLists : AnnotationsOk(i, annotations)]_vars

\* one of two saves of a quoted note has succeeded: the quote and the draft are
\* empty and the list is being fetched again
C3_Witness ==
  /\ \E k \in 1..Len(saveReqs) : saveReqs[k].highlighted_text # <<>>
  /\ currentHighlightedText = <<>>
  /\ annotationTextarea = <<>>
  /\ annotationList = [html |-> "Loading", cards |-> <<>>]
  /\ annotationsReqs = <<currentLayerId>>

\* a step in which a request of some kind fails: fetch rejects or the status
\* is no success (for the requests whose status the code does not test, the
\* body of an error status)
FailureStep ==
  \/ \E i \in Sends, body \in {"none", "object"} : LayersFail(i, body)
  \/ \E i \in Sends, body \in {"none", "object"} : AnnotationsFail(i, body)
  \/ \E i \in Sends : SaveFail(i)
  \/ \E i \in Sends : DeleteReject(i)
  \/ \E i \in Sends : GroupsFail(i)
  \/ \E i \in Sends : CreateFail(i)
  \/ \E i \in Sends : AiFail(i)
  \/ \E i \in Sends : AiAnswer(i, "undefined")

\* C4: for every request kind, a failed request is caught by the handler that
\* issued it, the user is shown a message, and currentLayerId, the pending
\* quote, the draft, the layer list and the annotation list are as they were
\* before the action.  (For list-annotations, whose call writes before it
\* awaits, only the message is demanded here.)
C4_FailureShowsMessageAndKeepsState ==
  /\ [][FailureStep => alertMsg' # "" /\ consoleError' # "uncaught"]_vars
  /\ [][(FailureStep
          /\ ~(\E i \in Sends, body \in {"none", "object"} : AnnotationsFail(i, body)))
          => UNCHANGED panelVars]_vars

NoRetry == InFlight' = InFlight - 1

\* C5 as stated: whenever the groups fetch or the create-layer request fails, a
\* message is shown, the dialog ends closed, and no retry is issued.
C5_FailureClosesDialog ==
  [][(\E i \in Sends : GroupsFail(i) \/ CreateFail(i))
       => alertMsg' # "" /\ createLayerModal' = "none" /\ NoRetry]_vars

\* C5, amended: whenever the groups fetch fails, a message is shown and the
\* dialog is closed; whenever the create-layer request fails, a message is
\* shown and the dialog stays as it is (open, unless the user has closed it);
\* in neither case is a retry issued.
C5_GroupsFailureClosesCreateFailureDoesNot ==
  /\ [][(\E i \in Sends : GroupsFail(i))
          => alertMsg' # "" /\ createLayerModal' = "none" /\ NoRetry]_vars
  /\ [][(\E i \in Sends : CreateFail(i))
          => alertMsg' # "" /\ createLayerModal' = createLayerModal /\ NoRetry]_vars

\* a create-layer request has just failed and the dialog is still open
C5_Witness ==
  /\ alertMsg = "Error creating layer."
  /\ createLayerModal = "flex"
  /\ createReqs = <<>>

\* C6: when the groups fetch of an opening of the dialog fails, no create-layer
\* request has been sent between that opening and the closing of the dialog.
C6_NoCreateWhenGroupsFail ==
  [][\A i \in Sends : GroupsFail(i) => ~groupsReqs[i].created]_vars

\* C7: a confirm with a non-empty name sends study_group_id = null exactly when
\* the scope selector holds "0", and for every other value it holds, the
\* integer parsed from that value.
C7_ScopeMapsToGroupId ==
  [][(ConfirmClick /\ createReqs' # createReqs)
       => LET sent == createReqs'[Len(createReqs')]
              groupIdVal == newLayerGroupSelect.value
          IN /\ (sent.study_group_id = Null) <=> (groupIdVal = <<0>>)
             /\ groupIdVal # <<0>>
                  => sent.study_group_id \in Nat /\ sent.study_group_id = ParseInt(groupIdVal)]_vars

\* C8: once the document is loaded, currentPageNum is in 1..totalPages.
C8_CurrentPageInRange ==
  loadPc \notin {"getDocument", "failed"} => currentPageNum \in 1..totalPages

\* the last page of a document of more than one page is current, and a page
\* button has scrolled
C8_Witness ==
  /\ loadPc = "done"
  /\ totalPages > 1
  /\ currentPageNum = totalPages
  /\ scrolledTo # <<>>

QualifyingEntries(entries) == {k \in 1..Len(entries) : Qualifies(entries[k])}

\* C9 as stated: an observer event in which page k has reached the threshold
\* sets currentPageNum and the display to k; every other observer event leaves
\* currentPageNum as it was.
C9_EveryQualifyingPageIsSet ==
  [][\A entries \in Entries : ObserverCallback(entries)
       => /\ \A k \in QualifyingEntries(entries) :
                /\ currentPageNum' = PageOf(entries[k].target)
                /\ pageNumDisplay' = PageOf(entries[k].target)
          /\ QualifyingEntries(entries) = {} => currentPageNum' = currentPageNum]_vars

\* C9, amended: an observer event in which some page has reached the threshold
\* sets currentPageNum and the display to the last such page of the event's
\* entries (to k, when page k is the only one); every other observer event
\* leaves both as they were; and currentPageNum only ever changes to a page
\* that an observer event reports at the threshold.
C9_LastQualifyingPageIsSet ==
  /\ [][\A entries \in Entries : ObserverCallback(entries)
          => LET Q == QualifyingEntries(entries) IN
             IF Q = {}
             THEN currentPageNum' = currentPageNum /\ pageNumDisplay' = pageNumDisplay
             ELSE LET last == CHOOSE k \in Q : \A j \in Q : j <= k
                  IN /\ currentPageNum' = PageOf(entries[last].target)
                     /\ pageNumDisplay' = PageOf(entries[last].target)]_vars
  /\ [][currentPageNum' # currentPageNum
          => \E entries \in Entries :
               /\ ObserverCallback(entries)
               /\ \E k \in QualifyingEntries(entries) :
                    currentPageNum' = PageOf(entries[k].target)]_vars

\* with two pages observed, the tracker has set the second page
C9_Witness ==
  /\ Cardinality(observed) > 1
  /\ currentPageNum = 2
  /\ pageNumDisplay = 2

\* C10: the pending quote changes in two ways only: a pointer release whose
\* trimmed selection is non-empty overwrites it with that selection, and a
\* successful save empties it; a pointer release whose trimmed selection is
\* empty, a rejected or failed save and every other step leave it as it was.
C10_QuoteChangesByReleaseAndSaveOnly ==
  /\ [][currentHighlightedText' # currentHighlightedText
          => \/ \E selection \in Selections :
                  /\ MouseUp(selection)
                  /\ Len(Trim(selection)) > 0
                  /\ currentHighlightedText' = Trim(selection)
             \/ \E i \in Sends : SaveOk(i) /\ currentHighlightedText' = <<>>]_vars
  /\ [][\A selection \in Selections : MouseUp(selection)
          => currentHighlightedText' =
               IF Len(Trim(selection)) > 0 THEN Trim(selection)
               ELSE currentHighlightedText]_vars
  /\ [][\A i \in Sends : SaveOk(i) => currentHighlightedText' = <<>>]_vars
  /\ [][(SaveClick \/ \E i \in Sends : SaveFail(i))
          => currentHighlightedText' = currentHighlightedText]_vars

\* a quote sent with a save in flight has since been overwritten by another
\* selection
C10_Witness ==
  /\ \E k \in 1..Len(saveReqs) : saveReqs[k].highlighted_text = <<"q">>
  /\ currentHighlightedText = <<"r">>

\* C11: the position_data of a create-annotation request is "Page k" with k
\* the value of currentPageNum at the save click that sends it; no later step,
\* a scroll to another page included, alters a request that is in flight.
C11_PositionIsPageAtSaveClick ==
  [][IF Len(saveReqs') > Len(saveReqs)
     THEN /\ SaveClick
          /\ SubSeq(saveReqs', 1, Len(saveReqs)) = saveReqs
          /\ LET sent == saveReqs'[Len(saveReqs')]
             IN /\ sent.position_data[1] = "Page "
                /\ ParseInt(sent.position_data[2]) = currentPageNum
                /\ sent.highlighted_text = currentHighlightedText
     ELSE \A k \in 1..Len(saveReqs') : \E j \in 1..Len(saveReqs) : saveReqs'[k] = saveReqs[j]]_vars

\* a note with a quote was saved on page 2 and the reader has scrolled back to
\* page 1 while the request is in flight
C11_Witness ==
  /\ currentPageNum = 1
  /\ \E k \in 1..Len(saveReqs) :
       /\ saveReqs[k].position_data = <<"Page ", NumToStr(2)>>
       /\ saveReqs[k].highlighted_text = <<"q">>

\* C12: at most one ask-AI request is in flight at any time; while one is in
\* flight the trigger is disabled and shows the busy label, and no step taken
\* meanwhile is a click on the trigger, so no second request is sent.
C12_OneAiRequestAtATime ==
  /\ [](/\ Len(aiReqs) <= 1
        /\ Len(aiReqs) = 1 => (askAiBtn.disabled /\ askAiBtn.textContent = "Thinking..."))
  /\ [][Len(aiReqs) = 1 => (~AskAiClick /\ Len(aiReqs') <= 1)]_vars

\* an ask-AI request is in flight for a non-empty draft, the trigger is
\* disabled, and another request would still fit the network
C12_Witness ==
  /\ Len(aiReqs) = 1
  /\ askAiBtn.disabled
  /\ Len(Trim(annotationTextarea)) > 0
  /\ InFlight < MaxInFlight

\* C13: when the response or the failure of an ask-AI request arrives, with an
\* explanation, with a body that has none, or as a rejected fetch or parse,
\* the trigger is enabled again and no longer shows the busy label; the
\* trigger is never busy or disabled without a request in flight.
C13_TriggerRestoredOnEveryPath ==
  /\ [][Len(aiReqs') < Len(aiReqs)
         => (~askAiBtn'.disabled /\ askAiBtn'.textContent # "Thinking...")]_vars
  /\ []((askAiBtn.disabled \/ askAiBtn.textContent = "Thinking...") => Len(aiReqs) > 0)

\* the ask-AI request has just failed and the trigger is back
C13_Witness ==
  /\ alertMsg = "AI could not respond."
  /\ aiReqs = <<>>
  /\ ~askAiBtn.disabled
  /\ askAiBtn.textContent = "Ask AI"

\* C14: when the create-layer request succeeds the dialog is closed and a
\* list-layers request is issued, the new layer not yet selected; when that
\* request resolves its list is put into the layer selector and only then the
\* new layer is selected there, a list-annotations request for the new
\* layer's id is issued and currentLayerId becomes that id, also when the
\* list-layers request fails.
C14_CreatedLayerBecomesCurrent ==
  /\ [][\A i \in Sends, newLayer \in LayerIds :
          CreateOk(i, newLayer)
            => /\ createLayerModal' = "none"
               /\ layersReqs' = Append(layersReqs, [then |-> "selectNew", newLayer |-> newLayer])
               /\ UNCHANGED <<currentLayerId, layerSelect, annotationsReqs>>]_vars
  /\ [][\A i \in Sends :
          (i <= Len(layersReqs) /\ layersReqs[i].then = "selectNew"
             /\ layersReqs[i].newLayer \in LayerIds)
            => LET id == layersReqs[i].newLayer
                   started == /\ annotationsReqs' = Append(annotationsReqs, id)
                              /\ currentLayerId' = id
               IN /\ \A layers \in LayerLists :
                       LayersOk(i, layers)
                         => /\ layerSelect'.options = layers
                            /\ layerSelect'.value \in {id, Null}
                            /\ layerSelect'.value = id <=> id \in LayerOptions'
                            /\ started
                  /\ \A body \in {"none", "object"} : LayersFail(i, body) => started]_vars

\* the chain has run for layer 2: dialog closed, the refreshed list in the
\* selector with layer 2 selected, its annotations being fetched
C14_Witness ==
  /\ createLayerModal = "none"
  /\ layerSelect = [options |-> <<1, 2>>, value |-> 2]
  /\ currentLayerId = 2
  /\ annotationsReqs = <<2>>
  /\ annotationList.html = "Loading"
  /\ layersReqs = <<>>

\* C15: a delete-annotation request is sent only by a confirmed click on the
\* delete button of a card in the rendered list, for the annotation that card
\* shows, and that annotation was written by the current user; a declined
\* confirmation sends nothing.
C15_DeleteOnlyOwnConfirmed ==
  [][/\ deleteReqs' # deleteReqs /\ Len(deleteReqs') >= Len(deleteReqs)
        => \E c \in 1..Len(annotationList.cards) :
             LET id == annotationList.cards[c].shows
             IN /\ DeleteClick(c, TRUE)
                /\ deleteReqs' = Append(deleteReqs, id)
                /\ \E a \in Annotations : a.id = id /\ a.author_id = CURRENT_USER_ID
     /\ \A c \in 1..Len(annotationList.cards) :
          DeleteClick(c, FALSE) => deleteReqs' = deleteReqs]_vars

\* a delete request for the viewer's own annotation is in flight while the
\* card of somebody else's annotation is in the rendered list
C15_Witness ==
  /\ deleteReqs = <<1>>
  /\ \E c \in 1..Len(annotationList.cards) :
       /\ annotationList.cards[c].shows = 2
       /\ ~annotationList.cards[c].deleteBtn

\* C16: a list-annotations call without a layer id renders the prompt and
\* sends no request; a call with a layer id shows the loading placeholder;
\* and whenever a list-annotations request completes, with whatever outcome,
\* the list then shows the "no notes yet" placeholder or one card per returned
\* annotation, in the order returned.
C16_PlaceholderAlwaysReplaced ==
  /\ [][\A i \in Sends :
          (i <= Len(layersReqs) /\ layersReqs[i].then = "selectNew"
             /\ layersReqs[i].newLayer = Null /\ layersReqs' = RemoveAt(layersReqs, i))
            => /\ annotationList'.html = "Select a journal layer"
               /\ annotationsReqs' = annotationsReqs]_vars
  /\ [][Len(annotationsReqs') > Len(annotationsReqs)
          => annotationList' = [html |-> "Loading", cards |-> <<>>]]_vars
  /\ [][Len(annotationsReqs') < Len(annotationsReqs)
          => \/ annotationList' = [html |-> "No notes yet", cards |-> <<>>]
             \/ \E annotations \in AnnotationLists \ {<<>>} :
                  /\ annotationList'.html = ""
                  /\ annotationList'.cards
                       = [k \in 1..Len(annotations) |-> Card(annotations[k])]]_vars

\* the page surfaces of the viewport are those of pages of the document, in
\* increasing page order, so no identifier occurs twice
SurfacesInPageOrder ==
  /\ \A i \in 1..Len(viewerContainer) :
       \E n \in 1..totalPages : viewerContainer[i].id = WrapperId(n)
  /\ \A i, j \in 1..Len(viewerContainer) :
       i < j => PageOf(viewerContainer[i].id) < PageOf(viewerContainer[j].id)

\* C17 as stated: when rendering finishes the viewport holds the page surfaces
\* in increasing page order, each with its identifier page-wrapper-<n> and a
\* text layer; a failure while rendering page k is logged, page k is skipped
\* (it has no surface), and the loop goes on with the pages after k.
C17_EverySurfaceHasTextLayer ==
  /\ [](loadPc = "done"
         => /\ SurfacesInPageOrder
            /\ \A i \in 1..Len(viewerContainer) : viewerContainer[i].textLayer)
  /\ [][PageError
         => /\ consoleError' = "error"
            /\ \A i \in 1..Len(viewerContainer') : viewerContainer'[i].id # WrapperId(pageNum)
            /\ pageNum' = pageNum + 1
            /\ loadPc' = IF pageNum < totalPages THEN "getPage" ELSE "done"]_vars

\* C17, amended: the viewport holds page surfaces in increasing page order,
\* each with its identifier page-wrapper-<n>, and rendering finishes only after
\* every page was attempted; a page whose rendering steps all succeed has its
\* surface with a text layer, and keeps them; a failure while rendering page k
\* is logged and ends the work on page k only: page k has no surface when the
\* page could not be got and otherwise keeps its surface, without a text
\* layer when the failure came before the text layer was attached; the loop
\* goes on with the pages after k.
C17_FailureEndsOnlyThatPage ==
  /\ [](SurfacesInPageOrder /\ (loadPc = "done" => pageNum = totalPages + 1))
  /\ [][RenderTextLayerOk
         => LET last == viewerContainer'[Len(viewerContainer')]
            IN last.id = WrapperId(pageNum) /\ last.textLayer]_vars
  /\ [][\A i \in 1..Len(viewerContainer) :
          /\ i <= Len(viewerContainer')
          /\ viewerContainer'[i].id = viewerContainer[i].id
          /\ viewerContainer[i].textLayer => viewerContainer'[i].textLayer]_vars
  /\ [][PageError
         => /\ consoleError' = "error"
            /\ viewerContainer' = viewerContainer
            /\ loadPc = "getPage" => ~HasWrapper(WrapperId(pageNum))
            /\ loadPc = "render"
                 => LET last == viewerContainer[Len(viewerContainer)]
                    IN last.id = WrapperId(pageNum) /\ ~last.textLayer
            /\ pageNum' = pageNum + 1
            /\ loadPc' = IF pageNum < totalPages THEN "getPage" ELSE "done"]_vars

\* rendering has finished for a document of two pages: page 1 failed after its
\* surface was appended, page 2 has its surface and text layer
C17_Witness ==
  /\ loadPc = "done"
  /\ totalPages = 2
  /\ viewerContainer = <<[id |-> WrapperId(1), textLayer |-> FALSE],
                         [id |-> WrapperId(2), textLayer |-> TRUE]>>

\* the layer the annotation shown by a card belongs to
LayerOfCard(card) == (CHOOSE a \in Annotations : a.id = card.shows).layer_id

\* C18: list-annotations requests in flight together are answered in any
\* order, and each array that arrives is rendered whatever layer it was
\* requested for, so the list shown is that of the response that arrived
\* last; currentLayerId is not touched by a response, and a save sends to
\* currentLayerId whatever list is shown.
C18_LastResponseWins ==
  /\ [](\A i \in Sends :
          (i <= Len(annotationsReqs) /\ Len(annotationsReqs) > 1)
            => \A annotations \in AnnotationsOf(annotationsReqs[i]) :
                 ENABLED AnnotationsOk(i, annotations))
  /\ [][\A i \in Sends :
          i <= Len(annotationsReqs)
            => \A annotations \in AnnotationsOf(annotationsReqs[i]) :
                 AnnotationsOk(i, annotations)
                   => /\ annotationList' = RenderAnnotations(annotations)
                      /\ currentLayerId' = currentLayerId]_vars
  /\ [][Len(saveReqs') > Len(saveReqs)
          => saveReqs'[Len(saveReqs')].layer_id = currentLayerId]_vars

\* the list of layer 1 is shown while currentLayerId is layer 2, nothing is
\* awaited any more for the list, and a save for layer 2 is in flight
C18_Witness ==
  /\ currentLayerId = 2
  /\ annotationsReqs = <<>>
  /\ Len(annotationList.cards) > 0
  /\ \A c \in 1..Len(annotationList.cards) : LayerOfCard(annotationList.cards[c]) = 1
  /\ Len(saveReqs) = 1
  /\ saveReqs[1].layer_id = 2

\* C19: a click on save with a non-empty draft and a layer selected sends a
\* create-annotation request with the draft, currentLayerId and the pending
\* quote whether or not earlier create-annotation requests are still in
\* flight; a confirmed click on a delete button sends a delete request in the
\* same way.
C19_NoInFlightGuard ==
  /\ [][(SaveClick /\ Len(Trim(annotationTextarea)) > 0 /\ Truthy(currentLayerId))
         => /\ Len(saveReqs') = Len(saveReqs) + 1
            /\ SubSeq(saveReqs', 1, Len(saveReqs)) = saveReqs
            /\ LET sent == saveReqs'[Len(saveReqs')]
               IN /\ sent.content = Trim(annotationTextarea)
                  /\ sent.layer_id = currentLayerId
                  /\ sent.highlighted_text = currentHighlightedText]_vars
  /\ [][\A c \in 1..Len(annotationList.cards) :
          DeleteClick(c, TRUE)
            => deleteReqs' = Append(deleteReqs, annotationList.cards[c].shows)]_vars

\* two create-annotation requests with the same content, layer and quote are
\* in flight
C19_Witness ==
  /\ Len(saveReqs) = 2
  /\ saveReqs[1].content = saveReqs[2].content
  /\ saveReqs[1].layer_id = saveReqs[2].layer_id
  /\ saveReqs[1].highlighted_text = saveReqs[2].highlighted_text
  /\ saveReqs[1].highlighted_text # <<>>

\* C20: currentLayerId changes only in a step that starts a list-annotations
\* request, and every step that starts one sets it to the id requested, which
\* is not empty; once set it is never null again; a create-annotation request
\* carries the currentLayerId of the click that sends it, so the id of the
\* list-annotations call started last, whatever became of that call.
C20_CurrentLayerIsLastStartedList ==
  /\ [][currentLayerId' # currentLayerId
          => annotationsReqs' = Append(annotationsReqs, currentLayerId')]_vars
  /\ [][Len(annotationsReqs') > Len(annotationsReqs)
          => /\ annotationsReqs' = Append(annotationsReqs, currentLayerId')
             /\ Truthy(currentLayerId')]_vars
  /\ [][currentLayerId # Null => currentLayerId' # Null]_vars
  /\ [][Len(saveReqs') > Len(saveReqs)
          => /\ SubSeq(saveReqs', 1, Len(saveReqs)) = saveReqs
             /\ saveReqs'[Len(saveReqs')].layer_id = currentLayerId
             /\ currentLayerId' = currentLayerId]_vars

\* the list-annotations call started last, for layer 2, has failed and its
\* loading placeholder is still shown; a save for layer 2 is in flight
C20_Witness ==
  /\ currentLayerId = 2
  /\ annotationsReqs = <<>>
  /\ annotationList.html = "Loading"
  /\ Len(saveReqs) = 1
  /\ saveReqs[1].layer_id = 2
====
